---- MODULE Spec2Model ----
(***************************************************************************)
(* HealthMate: retrieval (src/rag/retrieval.py), context assembly          *)
(* (src/rag/context_builder.py), the conversation state store              *)
(* (src/memory/graph_state.py) and the session endpoints                   *)
(* (src/config/app.py, src/config/websocket_api.py).                       *)
(*                                                                         *)
(* Numbers: similarity scores and thresholds are in permille (0.5 = 500),  *)
(* L2 distances in hundredths (1.0 = 100), text-similarity thresholds in   *)
(* percent (0.85 = 85).  A text is a sequence of characters (integers).    *)
(* In a message, message_id / timestamp are -1 when the key is absent,     *)
(* 0 when the value is the empty string, and > 0 for a non-empty value.    *)
(***************************************************************************)
EXTENDS Integers, Sequences, FiniteSets, TLC

\* ------------------------------------------------------------------------
\* Bounds of the model
\* ------------------------------------------------------------------------
MaxResults == 3
MaxPassages == 3
MaxMessages == 2
MaxReplyLen == 4
MaxFrames == 2

\* ------------------------------------------------------------------------
\* Program constants (src/config/settings.py)
\* ------------------------------------------------------------------------
TOP_K == 5
SIMILARITY_THRESHOLD == 500
DEDUP_THRESHOLD == 85
MAX_CONTEXT_TOKENS == 2000
MAX_RETRIES == 5
INITIAL_DELAY == 1

\* ------------------------------------------------------------------------
\* Generic helpers
\* ------------------------------------------------------------------------
Min2(a, b) == IF a <= b THEN a ELSE b

SeqsUpTo(S, n) == UNION {[1..m -> S] : m \in 0..n}

\* ------------------------------------------------------------------------
\* RAGRetriever._text_similarity: difflib.SequenceMatcher(None, t1, t2).ratio()
\* ------------------------------------------------------------------------
RECURSIVE RunLen(_, _, _, _, _, _)
\* length of the common run a[i..], b[j..] inside a[..ahi], b[..bhi]
RunLen(a, b, i, j, ahi, bhi) ==
    IF i > ahi \/ j > bhi \/ a[i] # b[j] THEN 0
    ELSE 1 + RunLen(a, b, i + 1, j + 1, ahi, bhi)

\* find_longest_match: the longest block, earliest in a, then earliest in b
FindLongestMatch(a, b, alo, ahi, blo, bhi) ==
    LET cands == {<<i, j>> : i \in alo..ahi, j \in blo..bhi}
        len(c) == RunLen(a, b, c[1], c[2], ahi, bhi)
        best == CHOOSE c \in cands :
                  \A d \in cands :
                     \/ len(c) > len(d)
                     \/ /\ len(c) = len(d)
                        /\ \/ c[1] < d[1]
                           \/ c[1] = d[1] /\ c[2] <= d[2]
    IN  IF cands = {} THEN <<alo, blo, 0>>
        ELSE <<best[1], best[2], len(best)>>

RECURSIVE MatchingChars(_, _, _, _, _, _)
\* get_matching_blocks: total size of the blocks, longest match first, then
\* the pieces to its left and to its right
MatchingChars(a, b, alo, ahi, blo, bhi) ==
    LET m == FindLongestMatch(a, b, alo, ahi, blo, bhi)
    IN  IF m[3] = 0 THEN 0
        ELSE m[3]
             + MatchingChars(a, b, alo, m[1] - 1, blo, m[2] - 1)
             + MatchingChars(a, b, m[1] + m[3], ahi, m[2] + m[3], bhi)

\* ------------------------------------------------------------------------
\* State
\* ------------------------------------------------------------------------
VARIABLES
    retriever,   \* RAGRetriever fields set by __init__
    rcall,       \* arguments of the last retrieve / _deduplicate_passages call
    rret,        \* what that call returned, with the lists it went through
    builder,     \* ContextBuilder fields set by __init__
    bcall,       \* arguments of the build_context call
    bret,        \* what build_context returned, with its local variables
    sessions,    \* LangGraphStateManager._sessions of each store instance
    file,        \* conversations.json, the durable file the instances share
    last,        \* the store call that returned last, and what it returned
    deleted,     \* the conversation IDs delete_conversation has removed
    scall,       \* the update_state call whose round trip is followed
    env,         \* the surroundings: the IDs callers name, whether file I/O may fail
    wsturn,      \* where the websocket handler stands in its chat turn
    run,         \* one run of the pipeline graph: generate(state, id, manager)
    sock,        \* one websocket connection: the frame in hand, the frames sent
    llm,         \* one LLMObject._generate_sync call
    held         \* the view a caller of get_state holds

pvars == <<run, sock, llm, held>>

vars == <<retriever, rcall, rret, builder, bcall, bret,
          sessions, file, last, deleted, scall, env, wsturn, run, sock, llm, held>>

svars == <<sessions, file, last, deleted, scall, env, wsturn, pvars>>

svars_store == <<sessions, file, last, deleted, scall, env, wsturn>>

rvars == <<retriever, rcall, rret>>

bvars == <<builder, bcall, bret>>

\* "not passed" (Python None) for an optional integer argument
NoneArg == -1

\* Python truthiness of an optional number: None and 0 are falsy
OrDefault(arg, default) == IF arg = NoneArg \/ arg = 0 THEN default ELSE arg

\* ------------------------------------------------------------------------
\* The knowledge base seen through ChromaDBManager.similarity_search_with_score
\* ------------------------------------------------------------------------
DocIds == 1..4

\* page_content of each stored chunk: "aaba", "aaaa", "baaa", "aaaa"
DocContent(d) ==
    CASE d = 1 -> <<1, 1, 2, 1>>
      [] d = 2 -> <<1, 1, 1, 1>>
      [] d = 3 -> <<2, 1, 1, 1>>
      [] OTHER -> <<1, 1, 1, 1>>

DocSource(d) == IF d <= 2 THEN "manual.pdf" ELSE "guide.pdf"

\* the matching characters of every pair of stored texts, computed once
MatchedChars ==
    [a \in {DocContent(d) : d \in DocIds}, b \in {DocContent(d) : d \in DocIds} |->
        MatchingChars(a, b, 1, Len(a), 1, Len(b))]

\* ratio() >= th/100, i.e. 2*M/T >= th/100 (ratio is 1.0 when T = 0)
SimilarAtLeast(text1, text2, th) ==
    LET T == Len(text1) + Len(text2)
        M == IF <<text1, text2>> \in DOMAIN MatchedChars
             THEN MatchedChars[text1, text2]
             ELSE MatchingChars(text1, text2, 1, Len(text1), 1, Len(text2))
    IN  IF T = 0 THEN 100 >= th ELSE 200 * M >= th * T

\* L2 distances the index may report, in hundredths
Distances == {0, 100, 150}

\* a result row is (document, distance); a document is returned once
Rows == [doc : DocIds, distance : Distances]

ResultLists ==
    {r \in SeqsUpTo(Rows, MaxResults) :
        \A i, j \in 1..Len(r) : i # j => r[i].doc # r[j].doc}

\* similarity = 1 / (1 + distance), in permille
SimilarityScore(distance) == 100000 \div (100 + distance)

ToPassage(row) ==
    [doc      |-> row.doc,
     content  |-> DocContent(row.doc),
     source   |-> DocSource(row.doc),
     score    |-> SimilarityScore(row.distance)]

\* ------------------------------------------------------------------------
\* RAGRetriever
\* ------------------------------------------------------------------------
FilterByRelevance(passages, threshold) ==
    LET keep(p) == p.score >= threshold
    IN  SelectSeq(passages, keep)

RECURSIVE InsertByScore(_, _)
\* insert p behind every element whose score is >= p.score (stable, descending)
InsertByScore(sorted, p) ==
    IF sorted = <<>> THEN <<p>>
    ELSE IF Head(sorted).score >= p.score
         THEN <<Head(sorted)>> \o InsertByScore(Tail(sorted), p)
         ELSE <<p>> \o sorted

\* a plausible slip: the candidates are walked in retrieval order, unsorted
InRetrievalOrder(passages) == passages

RECURSIVE SortedByScoreDesc(_)
\* sorted(passages, key=score, reverse=True): stable
SortedByScoreDesc(passages) ==
    IF passages = <<>> THEN <<>>
    ELSE InsertByScore(SortedByScoreDesc(SubSeq(passages, 1, Len(passages) - 1)),
                       passages[Len(passages)])

\* the inner loop over seen_content
IsDuplicate(content, unique, dedup_threshold) ==
    \E k \in 1..Len(unique) :
        SimilarAtLeast(content, unique[k].content, dedup_threshold)

RECURSIVE DedupWalk(_, _, _, _)
DedupWalk(sorted, i, unique, dedup_threshold) ==
    IF i > Len(sorted) THEN unique
    ELSE IF IsDuplicate(sorted[i].content, unique, dedup_threshold)
         THEN DedupWalk(sorted, i + 1, unique, dedup_threshold)
         ELSE DedupWalk(sorted, i + 1, Append(unique, sorted[i]), dedup_threshold)

DeduplicatePassages(passages, dedup_threshold) ==
    IF passages = <<>> THEN passages
    ELSE DedupWalk(SortedByScoreDesc(passages), 1, <<>>, dedup_threshold)

\* RAGRetriever.__init__(similarity_threshold, dedup_threshold, top_k)
RetrieverInit(st, dt, tk) ==
    [similarity_threshold |-> OrDefault(st, SIMILARITY_THRESHOLD),
     dedup_threshold      |-> OrDefault(dt, DEDUP_THRESHOLD),
     top_k                |-> OrDefault(tk, TOP_K)]

NoReturn == [returned |-> FALSE, passages |-> <<>>, candidates |-> <<>>,
             unique |-> <<>>, final |-> <<>>]

\* RAGRetriever.retrieve(query, top_k, apply_dedup); rcall.results is what
\* the index answers for the query when asked for k * 2 rows
Retrieve ==
    LET k        == OrDefault(rcall.top_k, retriever.top_k)
        results  == SubSeq(rcall.results, 1, Min2(k * 2, Len(rcall.results)))
        passages == [i \in 1..Len(results) |-> ToPassage(results[i])]
        filtered == FilterByRelevance(passages, retriever.similarity_threshold)
        deduped  == IF rcall.apply_dedup
                    THEN DeduplicatePassages(filtered, retriever.dedup_threshold)
                    ELSE filtered
    IN  /\ rcall.op = "retrieve"
        /\ ~rret.returned
        /\ rret' = IF results = <<>>
                   THEN [NoReturn EXCEPT !.returned = TRUE]
                   ELSE [returned   |-> TRUE,
                         passages   |-> passages,
                         candidates |-> IF rcall.apply_dedup THEN filtered ELSE <<>>,
                         unique     |-> IF rcall.apply_dedup THEN deduped ELSE <<>>,
                         final      |-> SubSeq(deduped, 1, Min2(k, Len(deduped)))]
        /\ UNCHANGED <<retriever, rcall, bvars, svars>>

\* RAGRetriever._deduplicate_passages(passages) called on its own
Deduplicate ==
    LET passages == [i \in 1..Len(rcall.results) |-> ToPassage(rcall.results[i])]
    IN  /\ rcall.op = "dedup"
        /\ ~rret.returned
        /\ rret' = [returned   |-> TRUE,
                    passages   |-> passages,
                    candidates |-> passages,
                    unique     |-> DeduplicatePassages(passages, retriever.dedup_threshold),
                    final      |-> DeduplicatePassages(passages, retriever.dedup_threshold)]
        /\ UNCHANGED <<retriever, rcall, bvars, svars>>

\* arguments the callers are modelled to pass
SimThresholdArgs == {NoneArg, 800}
DedupThresholdArgs == {NoneArg, 75}
TopKInitArgs == {NoneArg, 1, 2}
TopKArgs == {NoneArg, 0, 1, 2}

\* ------------------------------------------------------------------------
\* ContextBuilder
\* ------------------------------------------------------------------------
\* A text is already split the way the encoding splits it: one element of the
\* sequence is one token, so _count_tokens is the length.
CountTokens(text) == Len(text)

\* "[Source N] "
SourcePrefix(n) == <<91, 92, 100 + n, 93>>

\* the default separator "\n\n---\n\n"
Separator == <<94, 95>>

\* an empty string in place of the sentence
EmptyText == <<>>

\* "No relevant information found in the knowledge base."
NoInformation == <<99>>

\* passage contents of 1, 3 and 6 tokens
BuilderContents == {<<1>>, <<1, 2, 3>>, <<1, 2, 3, 4, 5, 6>>}

\* metadata["source"]; "" stands for a passage whose metadata has no source
BuilderSources == {"a.pdf", "b.pdf", ""}

BuilderPassages == [content : BuilderContents, source : BuilderSources]

\* metadata.get("source", "Unknown")
SourceOf(passage) == IF passage.source = "" THEN "Unknown" ELSE passage.source

\* metadata.get("pages") of the chunks of a document; 0: no such key
PagesOf(passage) == IF passage.source = "a.pdf" THEN 3 ELSE 0

\* ContextBuilder.__init__(max_context_tokens)
BuilderInit(mt) == [max_context_tokens |-> OrDefault(mt, MAX_CONTEXT_TOKENS)]

RECURSIVE JoinParts(_)
\* separator.join(context_parts)
JoinParts(parts) ==
    IF parts = <<>> THEN <<>>
    ELSE IF Len(parts) = 1 THEN parts[1]
    ELSE parts[1] \o Separator \o JoinParts(Tail(parts))

FormatPassage(passage, citation_num, include_metadata) ==
    IF include_metadata THEN SourcePrefix(citation_num) \o passage.content
    ELSE passage.content

\* the locals of build_context before its loop
BuildStart ==
    [context_parts     |-> <<>>,
     citation_map      |-> <<>>,
     citation_counter  |-> 1,
     current_tokens    |-> 0,
     included_passages |-> 0]

\* a plausible slip: every passage takes a fresh number
AssignCitationAlways(loc, source) ==
    [loc EXCEPT !.citation_map =
                    [s \in DOMAIN loc.citation_map \cup {source} |->
                        IF s = source THEN loc.citation_counter
                        ELSE loc.citation_map[s]],
                !.citation_counter = loc.citation_counter + 1]

\* if source not in citation_map: citation_map[source] = citation_counter;
\* citation_counter += 1
AssignCitation(loc, source) ==
    IF source \in DOMAIN loc.citation_map
    THEN loc
    ELSE [loc EXCEPT !.citation_map =
                         [s \in DOMAIN loc.citation_map \cup {source} |->
                             IF s = source THEN loc.citation_counter
                             ELSE loc.citation_map[s]],
                     !.citation_counter = loc.citation_counter + 1]

\* a plausible slip: the budget is tested before the passage is counted
OverBudgetBeforeAdding(current_tokens, passage_tokens, max_context_tokens) ==
    current_tokens > max_context_tokens

\* if current_tokens + passage_tokens > self.max_context_tokens: break
OverBudget(current_tokens, passage_tokens, max_context_tokens) ==
    current_tokens + passage_tokens > max_context_tokens

RECURSIVE BuildWalkSkipping(_, _, _, _, _)
\* a plausible slip: `continue` in place of `break`, so a passage that does
\* not fit is skipped and a later, shorter one is still included
BuildWalkSkipping(passages, i, loc, include_metadata, max_context_tokens) ==
    IF i > Len(passages) THEN loc
    ELSE
      LET source    == SourceOf(passages[i])
          numbered  == AssignCitation(loc, source)
          formatted == FormatPassage(passages[i], numbered.citation_map[source],
                                     include_metadata)
          passage_tokens == CountTokens(formatted \o Separator)
      IN  IF OverBudget(loc.current_tokens, passage_tokens, max_context_tokens)
          THEN BuildWalkSkipping(passages, i + 1, numbered, include_metadata,
                                 max_context_tokens)
          ELSE BuildWalkSkipping(passages, i + 1,
                         [numbered EXCEPT
                            !.context_parts = Append(loc.context_parts, formatted),
                            !.current_tokens = loc.current_tokens + passage_tokens,
                            !.included_passages = loc.included_passages + 1],
                         include_metadata, max_context_tokens)

RECURSIVE BuildWalk(_, _, _, _, _)
\* the loop over passages, from passage i on, with the break at the budget
BuildWalk(passages, i, loc, include_metadata, max_context_tokens) ==
    IF i > Len(passages) THEN loc
    ELSE
      LET source    == SourceOf(passages[i])
          numbered  == AssignCitation(loc, source)
          formatted == FormatPassage(passages[i], numbered.citation_map[source],
                                     include_metadata)
          passage_tokens == CountTokens(formatted \o Separator)
      IN  IF OverBudget(loc.current_tokens, passage_tokens, max_context_tokens)
          THEN numbered
          ELSE BuildWalk(passages, i + 1,
                         [numbered EXCEPT
                            !.context_parts = Append(loc.context_parts, formatted),
                            !.current_tokens = loc.current_tokens + passage_tokens,
                            !.included_passages = loc.included_passages + 1],
                         include_metadata, max_context_tokens)

\* the metadata of the first passage of the list that has this source
FirstWithSource(passages, source) ==
    LET n == CHOOSE k \in 1..Len(passages) :
                /\ SourceOf(passages[k]) = source
                /\ \A m \in 1..(k - 1) : SourceOf(passages[m]) # source
    IN  passages[n]

RECURSIVE SortedByNumber(_)
\* sorted(citation_map.items(), key=number): the sources by ascending number
SortedByNumber(citation_map) ==
    IF DOMAIN citation_map = {} THEN <<>>
    ELSE LET first == CHOOSE s \in DOMAIN citation_map :
                         \A t \in DOMAIN citation_map :
                            citation_map[s] <= citation_map[t]
             rest  == [t \in DOMAIN citation_map \ {first} |-> citation_map[t]]
         IN  <<first>> \o SortedByNumber(rest)

\* _build_citations_from_map: one line "num. source (pages pages)" per entry
\* of the map, by ascending number; pages 0 when the line has no page count
BuildCitationsFromMap(citation_map, passages) ==
    LET order == SortedByNumber(citation_map)
    IN  [n \in 1..Len(order) |->
            [num    |-> citation_map[order[n]],
             source |-> order[n],
             pages  |-> PagesOf(FirstWithSource(passages, order[n]))]]

NoContext ==
    [returned |-> FALSE, keys |-> {}, context |-> <<>>, citations |-> <<>>,
     num_passages |-> 0, num_sources |-> 0, total_tokens |-> 0,
     context_parts |-> <<>>, citation_map |-> <<>>]

\* ContextBuilder.build_context(passages, include_metadata)
BuildContext ==
    LET loc == BuildWalk(bcall.passages, 1, BuildStart, bcall.include_metadata,
                         builder.max_context_tokens)
    IN  /\ ~bret.returned
        /\ bret' = IF bcall.passages = <<>>
                   THEN [NoContext EXCEPT !.returned = TRUE,
                                          !.keys = {"context", "citations"},
                                          !.context = NoInformation]
                   ELSE [returned      |-> TRUE,
                         keys          |-> {"context", "citations", "num_passages",
                                            "num_sources", "total_tokens"},
                         context       |-> JoinParts(loc.context_parts),
                         citations     |-> BuildCitationsFromMap(loc.citation_map,
                                                                 bcall.passages),
                         num_passages  |-> loc.included_passages,
                         num_sources   |-> Cardinality(DOMAIN loc.citation_map),
                         total_tokens  |-> loc.current_tokens,
                         context_parts |-> loc.context_parts,
                         citation_map  |-> loc.citation_map]
        /\ UNCHANGED <<builder, bcall, rvars, svars>>

MaxTokensArgs == {NoneArg, 10, 16}

\* ------------------------------------------------------------------------
\* LangGraphStateManager
\* ------------------------------------------------------------------------
\* the two instances the server builds: app.py:25 and websocket_api.py:12
Instances == {"app", "ws"}

EmptyStore == [c \in {} |-> 0]

\* a minted message_id (uuid4) or timestamp (utcnow) is some non-empty string
Minted == 1

\* title not passed, or passed empty
NoTitle == ""

\* LangGraphStateManager._create_message
CreateMessage(role, content) ==
    [role |-> role, content |-> content, message_id |-> Minted, timestamp |-> Minted]

\* a creation that forgets the title it was given
NewConversationUntitled(cid, title, summary) ==
    [conversation_id |-> cid, title |-> "Untitled", messages |-> <<>>, summary |-> summary]

\* ConversationDict(conversation_id, title, messages=[], summary)
NewConversation(cid, title, summary) ==
    [conversation_id |-> cid, title |-> title, messages |-> <<>>, summary |-> summary]

\* the dict with conversation cid set to conv
WithConversation(store, cid, conv) ==
    [c \in DOMAIN store \cup {cid} |-> IF c = cid THEN conv ELSE store[c]]

WithoutConversation(store, cid) ==
    [c \in DOMAIN store \ {cid} |-> store[c]]

\* what the file holds after _save_sessions: open(..., "w") and json.dump,
\* every exception caught and logged.  outcome "open_fails": open raises and
\* the file is untouched; "dump_fails": the file was truncated and the write
\* raises, leaving no parseable document.
SavedFile(store, outcome) ==
    CASE outcome = "ok"         -> [state |-> "ok", data |-> store]
      [] outcome = "open_fails" -> file
      [] OTHER                  -> [state |-> "garbled", data |-> EmptyStore]

\* a get_messages that answers from the instance's own dict
CachedSessions(outcome) == sessions["app"]

\* _load_sessions: the dict it leaves in _sessions.  A missing file gives {}
\* (and a save); an unreadable or unparseable one raises inside the try and
\* gives {} too.
LoadedSessions(outcome) ==
    IF file.state = "ok" /\ outcome = "ok" THEN file.data ELSE EmptyStore

\* _load_sessions: what the file holds afterwards (written only when missing)
FileAfterLoad(save_outcome) ==
    IF file.state = "missing" THEN SavedFile(EmptyStore, save_outcome) ELSE file

Returned(op, i, cid, result, view) ==
    [op |-> op, inst |-> i, cid |-> cid, result |-> result, view |-> view]

\* get_state(conversation_id, title)
GetState(i, cid, title, io) ==
    LET created == cid \notin DOMAIN sessions[i]
        store   == IF created
                   THEN WithConversation(sessions[i], cid,
                            NewConversation(cid,
                                IF title = NoTitle THEN "Untitled" ELSE title, ""))
                   ELSE sessions[i]
    IN  /\ sessions' = [sessions EXCEPT ![i] = store]
        /\ file' = IF created THEN SavedFile(store, io.save) ELSE file
        /\ last' = Returned("get_state", i, cid,
                            IF created THEN "created" ELSE "found",
                            [messages |-> store[cid].messages,
                             title    |-> store[cid].title,
                             summary  |-> store[cid].summary])
        /\ UNCHANGED deleted

\* the loop of update_state over state["messages"]
NormalizedMessages(messages) ==
    [n \in 1..Len(messages) |->
        IF messages[n].message_id = -1
        THEN CreateMessage(messages[n].role, messages[n].content)
        ELSE messages[n]]

\* update_state(conversation_id, state)
UpdateState(i, cid, state, io) ==
    LET conv  == [conversation_id |-> cid,
                  title    |-> state.title,
                  messages |-> NormalizedMessages(state.messages),
                  summary  |-> state.summary]
        store == WithConversation(sessions[i], cid, conv)
    IN  /\ sessions' = [sessions EXCEPT ![i] = store]
        /\ file' = SavedFile(store, io.save)
        /\ last' = Returned("update_state", i, cid, "ok", <<>>)
        /\ UNCHANGED deleted

\* clear_messages(conversation_id)
ClearMessages(i, cid, io) ==
    IF cid \in DOMAIN sessions[i]
    THEN LET store == [sessions[i] EXCEPT ![cid].messages = <<>>]
         IN  /\ sessions' = [sessions EXCEPT ![i] = store]
             /\ file' = SavedFile(store, io.save)
             /\ last' = Returned("clear_messages", i, cid, "true", <<>>)
             /\ UNCHANGED deleted
    ELSE /\ last' = Returned("clear_messages", i, cid, "false", <<>>)
         /\ UNCHANGED <<sessions, file, deleted>>

\* delete_conversation(conversation_id)
DeleteConversation(i, cid, io) ==
    IF cid \in DOMAIN sessions[i]
    THEN LET store == WithoutConversation(sessions[i], cid)
         IN  /\ sessions' = [sessions EXCEPT ![i] = store]
             /\ file' = SavedFile(store, io.save)
             /\ last' = Returned("delete_conversation", i, cid, "true", <<>>)
             /\ deleted' = deleted \cup {cid}
    ELSE /\ last' = Returned("delete_conversation", i, cid, "false", <<>>)
         /\ UNCHANGED <<sessions, file, deleted>>

\* list_sessions()
ListSessions(i) ==
    /\ last' = Returned("list_sessions", i, "", "ok",
                        [c \in DOMAIN sessions[i] |->
                            [conversation_id |-> c,
                             title           |-> sessions[i][c].title,
                             message_count   |-> Len(sessions[i][c].messages)]])
    /\ UNCHANGED <<sessions, file, deleted>>

\* get_messages(conversation_id): reloads from the file first
GetMessages(i, cid, io) ==
    LET store == LoadedSessions(io.load)
    IN  /\ sessions' = [sessions EXCEPT ![i] = store]
        /\ file' = FileAfterLoad(io.save)
        /\ last' = Returned("get_messages", i, cid, "ok",
                            IF cid \in DOMAIN store THEN store[cid].messages ELSE <<>>)
        /\ UNCHANGED deleted

\* a plausible slip: the message is appended to a copy of the list
AddedToCopy(store, cid, message) ==
    [raised |-> cid \notin DOMAIN store, store |-> store]

\* a plausible slip: add_message creates the conversation it does not find
AddedToOrCreated(store, cid, message) ==
    [raised |-> FALSE,
     store  |-> IF cid \in DOMAIN store
                THEN [store EXCEPT ![cid].messages = Append(@, message)]
                ELSE WithConversation(store, cid,
                        [NewConversation(cid, "Untitled", "")
                            EXCEPT !.messages = <<message>>])]

\* the body of add_message: raise ValueError when the ID is not in _sessions,
\* else self._sessions[cid]["messages"].append(message)
AddedTo(store, cid, message) ==
    IF cid \notin DOMAIN store
    THEN [raised |-> TRUE, store |-> store]
    ELSE [raised |-> FALSE,
          store  |-> [store EXCEPT ![cid].messages = Append(@, message)]]

\* add_message(conversation_id, role, content)
AddMessage(i, cid, role, content, io) ==
    LET message == CreateMessage(role, content)
        added   == AddedTo(sessions[i], cid, message)
    IN  IF added.raised
        THEN /\ last' = Returned("add_message", i, cid, "not_found", <<>>)
             /\ UNCHANGED <<sessions, file, deleted>>
        ELSE /\ sessions' = [sessions EXCEPT ![i] = added.store]
             /\ file' = SavedFile(added.store, io.save)
             /\ last' = Returned("add_message", i, cid, "ok", <<message>>)
             /\ UNCHANGED deleted

\* a constructed retriever and one call about to be made on it
InitRetriever ==
    /\ retriever \in {RetrieverInit(st, dt, tk) :
                        st \in SimThresholdArgs, dt \in DedupThresholdArgs,
                        tk \in TopKInitArgs}
    /\ \/ rcall \in [op : {"retrieve"}, top_k : TopKArgs, apply_dedup : BOOLEAN,
                     results : ResultLists]
       \/ rcall \in [op : {"dedup"}, top_k : {NoneArg}, apply_dedup : {TRUE},
                     results : ResultLists]
    /\ rret = NoReturn

NextRetriever ==
    \/ Retrieve
    \/ Deduplicate

\* a constructed context builder and one build_context call about to be made
InitBuilder ==
    /\ builder \in {BuilderInit(mt) : mt \in MaxTokensArgs}
    /\ bcall \in [passages : SeqsUpTo(BuilderPassages, MaxPassages),
                  include_metadata : BOOLEAN]
    /\ bret = NoContext

\* the part of the state a specification does not use
IdleRetriever ==
    /\ retriever = RetrieverInit(NoneArg, NoneArg, NoneArg)
    /\ rcall = [op |-> "none", top_k |-> NoneArg, apply_dedup |-> FALSE, results |-> <<>>]
    /\ rret = NoReturn

IdleBuilder ==
    /\ builder = BuilderInit(NoneArg)
    /\ bcall = [passages |-> <<>>, include_metadata |-> TRUE]
    /\ bret = [NoContext EXCEPT !.returned = TRUE]

NextBuilder == BuildContext

\* ------------------------------------------------------------------------
\* The store under its callers
\* ------------------------------------------------------------------------
OkIO == [save |-> "ok", load |-> "ok"]

\* the ways the file operations of one call can end
FaultyIO == [save : {"ok", "open_fails", "dump_fails"}, load : {"ok", "fails"}]

IOs == IF env.faults THEN FaultyIO ELSE {OkIO}

TitleArgs == {NoTitle, "T"}

Roles == {"user", "assistant"}

\* a message as older files hold it: no message_id, no timestamp
LegacyMessage == [role |-> "user", content |-> "m", message_id |-> -1, timestamp |-> -1]

\* the views a caller of update_state passes in the store specifications
StoreViews ==
    [title    : {"Untitled", "T"},
     messages : SeqsUpTo({CreateMessage("user", "m"), LegacyMessage}, MaxMessages),
     summary  : {""}]

NoCall == [cid |-> "", state |-> [title |-> "", messages |-> <<>>, summary |-> ""]]

IdleTurn == [pc |-> "idle", cid |-> ""]

\* after the constructor ran on a missing file: the file now holds {}, or is
\* still missing when that first save failed
InitStore(ids, faults) ==
    /\ sessions = [i \in Instances |-> EmptyStore]
    /\ file \in {[state |-> "ok", data |-> EmptyStore]}
                \cup (IF faults THEN {[state |-> "missing", data |-> EmptyStore]} ELSE {})
    /\ last = Returned("init", "app", "", "ok", <<>>)
    /\ deleted = {}
    /\ scall = NoCall
    /\ env = [ids |-> ids, faults |-> faults]
    /\ wsturn = IdleTurn

IdleStore == InitStore({}, FALSE)

Rest == <<rvars, bvars, scall, env, wsturn, pvars>>

StoreGetState ==
    \E cid \in env.ids, title \in TitleArgs, io \in IOs :
        GetState("app", cid, title, io) /\ UNCHANGED Rest

StoreUpdateState ==
    \E cid \in env.ids, state \in StoreViews, io \in IOs :
        UpdateState("app", cid, state, io) /\ UNCHANGED Rest

StoreClearMessages ==
    \E cid \in env.ids, io \in IOs :
        ClearMessages("app", cid, io) /\ UNCHANGED Rest

StoreDeleteConversation ==
    \E cid \in env.ids, io \in IOs :
        DeleteConversation("app", cid, io) /\ UNCHANGED Rest

StoreListSessions == ListSessions("app") /\ UNCHANGED Rest

StoreGetMessages ==
    \E cid \in env.ids, io \in IOs :
        GetMessages("app", cid, io) /\ UNCHANGED Rest

StoreAddMessage ==
    \E cid \in env.ids, role \in Roles, io \in IOs :
        /\ cid \in DOMAIN sessions["app"]
              => Len(sessions["app"][cid].messages) < MaxMessages
        /\ AddMessage("app", cid, role, "m", io)
        /\ UNCHANGED Rest

NextStore ==
    \/ StoreGetState
    \/ StoreUpdateState
    \/ StoreClearMessages
    \/ StoreDeleteConversation
    \/ StoreListSessions
    \/ StoreGetMessages
    \/ StoreAddMessage

\* ------------------------------------------------------------------------
\* The store when the file cannot be read
\* ------------------------------------------------------------------------
\* open() or json.load() raises inside _load_sessions although the file holds
\* a document: a read error, or a file another writer has just truncated
LoadFails == [save |-> "ok", load |-> "fails"]

\* get_messages whose reload fails
StoreGetMessagesLoadFails ==
    \E cid \in env.ids :
        GetMessages("app", cid, LoadFails) /\ UNCHANGED Rest

\* the process starts again: __init__ builds the instance from the file,
\* which it reads or fails to read
StoreRestart ==
    \E io \in {OkIO, LoadFails} :
        /\ sessions' = [sessions EXCEPT !["app"] = LoadedSessions(io.load)]
        /\ file' = FileAfterLoad(io.save)
        /\ last' = Returned("init", "app", "", "ok", <<>>)
        /\ UNCHANGED <<deleted, Rest>>

NextLoadFailure ==
    \/ StoreGetState
    \/ StoreUpdateState
    \/ StoreClearMessages
    \/ StoreDeleteConversation
    \/ StoreListSessions
    \/ StoreGetMessages
    \/ StoreAddMessage
    \/ StoreGetMessagesLoadFails
    \/ StoreRestart

\* ------------------------------------------------------------------------
\* A caller and the view get_state gave it
\* ------------------------------------------------------------------------
\* get_state returns GraphState(messages=conversation["messages"], ...): the
\* view's list is the store's list object until the store binds another list
\* to the conversation.  alias: the two are still one object.
NoView == [cid |-> "", alias |-> FALSE, title |-> "", messages |-> <<>>, appends |-> 0]

ViewRest == <<rvars, bvars, scall, env, wsturn, run, sock, llm>>

\* state = state_manager.get_state(conversation_id)
ViewGetState ==
    \E cid \in env.ids :
        /\ GetState("app", cid, NoTitle, OkIO)
        /\ held' = [cid |-> cid, alias |-> TRUE, title |-> last'.view.title,
                    messages |-> last'.view.messages, appends |-> 0]
        /\ UNCHANGED ViewRest

\* state["messages"].append({"role": ..., "content": ...}), as chat_completions
\* extends the list: no store operation is called
ViewAppend ==
    /\ held.cid # ""
    /\ Len(held.messages) < MaxMessages
    /\ held' = [held EXCEPT !.messages = Append(@, LegacyMessage), !.appends = @ + 1]
    /\ sessions' = IF held.alias
                   THEN [sessions EXCEPT
                            !["app"][held.cid].messages = Append(@, LegacyMessage)]
                   ELSE sessions
    /\ UNCHANGED <<file, last, deleted, ViewRest>>

\* state_manager.update_state(conversation_id, state): the store binds the
\* new list it built
ViewUpdateState ==
    /\ held.cid # ""
    /\ UpdateState("app", held.cid,
                   [title |-> held.title, messages |-> held.messages, summary |-> ""],
                   OkIO)
    /\ held' = [held EXCEPT !.alias = FALSE]
    /\ UNCHANGED ViewRest

\* add_message appends to the store's list, which the view may be
ViewAddMessage ==
    \E cid \in env.ids :
        /\ cid \in DOMAIN sessions["app"]
              => Len(sessions["app"][cid].messages) < MaxMessages
        /\ AddMessage("app", cid, "user", "m", OkIO)
        /\ held' = IF held.alias /\ held.cid = cid /\ last'.result = "ok"
                   THEN [held EXCEPT !.messages = sessions'["app"][cid].messages]
                   ELSE held
        /\ UNCHANGED ViewRest

\* clear_messages binds a new empty list; the view keeps the old one
ViewClearMessages ==
    \E cid \in env.ids :
        /\ ClearMessages("app", cid, OkIO)
        /\ held' = IF held.cid = cid /\ last'.result = "true"
                   THEN [held EXCEPT !.alias = FALSE] ELSE held
        /\ UNCHANGED ViewRest

\* delete_conversation drops the conversation; the view keeps its list
ViewDeleteConversation ==
    \E cid \in env.ids :
        /\ DeleteConversation("app", cid, OkIO)
        /\ held' = IF held.cid = cid /\ last'.result = "true"
                   THEN [held EXCEPT !.alias = FALSE] ELSE held
        /\ UNCHANGED ViewRest

\* get_messages reloads: json.load builds every list anew
ViewGetMessages ==
    \E cid \in env.ids :
        /\ GetMessages("app", cid, OkIO)
        /\ held' = [held EXCEPT !.alias = FALSE]
        /\ UNCHANGED ViewRest

NextView ==
    \/ ViewGetState
    \/ ViewAppend
    \/ ViewUpdateState
    \/ ViewAddMessage
    \/ ViewClearMessages
    \/ ViewDeleteConversation
    \/ ViewGetMessages

\* ------------------------------------------------------------------------
\* One update_state call and the get_state that follows it
\* ------------------------------------------------------------------------
\* an entry of state["messages"]: each of the two keys absent (-1), empty (0)
\* or holding a caller's string (2)
InputMessages ==
    [role : {"user"}, content : {"m"}, message_id : {-1, 0, 2}, timestamp : {-1, 0, 2}]

InputViews ==
    [title : {"T"}, messages : SeqsUpTo(InputMessages, MaxMessages), summary : {""}]

InitRoundTrip ==
    /\ sessions \in {[i \in Instances |-> EmptyStore],
                     [i \in Instances |->
                        WithConversation(EmptyStore, "c1",
                            [NewConversation("c1", "Untitled", "")
                                EXCEPT !.messages = <<CreateMessage("user", "m")>>])]}
    /\ file = [state |-> "ok", data |-> sessions["app"]]
    /\ last = Returned("init", "app", "", "ok", <<>>)
    /\ deleted = {}
    /\ scall \in [cid : {"c1"}, state : InputViews]
    /\ env = [ids |-> {"c1"}, faults |-> FALSE]
    /\ wsturn = IdleTurn

RoundTripUpdate ==
    /\ last.op = "init"
    /\ UpdateState("app", scall.cid, scall.state, OkIO)
    /\ UNCHANGED Rest

RoundTripGet ==
    /\ last.op = "update_state"
    /\ GetState("app", scall.cid, NoTitle, OkIO)
    /\ UNCHANGED Rest

NextRoundTrip == RoundTripUpdate \/ RoundTripGet

\* ------------------------------------------------------------------------
\* The server: the endpoints of app.py on one store instance, the websocket
\* handler on another, both over the same file
\* ------------------------------------------------------------------------
DEFAULT_CONV_ID == "default"

ServerIds == {DEFAULT_CONV_ID, "s1"}

\* app.py has built its instance and created the default conversation, then
\* websocket_api.py has built its own instance from the file
InitServer ==
    LET store == WithConversation(EmptyStore, DEFAULT_CONV_ID,
                                  NewConversation(DEFAULT_CONV_ID, "Default", ""))
    IN  /\ sessions = [i \in Instances |-> store]
        /\ file = [state |-> "ok", data |-> store]
        /\ last = Returned("get_state", "app", DEFAULT_CONV_ID, "created",
                           [messages |-> <<>>, title |-> "Default", summary |-> ""])
        /\ deleted = {}
        /\ scall = NoCall
        /\ env = [ids |-> ServerIds, faults |-> FALSE]
        /\ wsturn = IdleTurn

\* POST /v1/chat/completions: get_state, then generate() raises on the
\* keyword arguments it is called with
chat_completions ==
    \E cid \in ServerIds :
        GetState("app", cid, NoTitle, OkIO) /\ UNCHANGED Rest

\* GET /v1/memory/{conversation_id}
get_memory ==
    \E cid \in ServerIds :
        GetMessages("app", cid, OkIO) /\ UNCHANGED Rest

\* a uuid4 names no conversation seen before
FreshId(cid) ==
    /\ cid # DEFAULT_CONV_ID
    /\ cid \notin deleted
    /\ cid \notin DOMAIN file.data
    /\ \A i \in Instances : cid \notin DOMAIN sessions[i]

\* POST /v1/sessions/create
create_session ==
    \E title \in TitleArgs :
        IF title = NoTitle
        THEN /\ last' = Returned("create_session", "app", "", "refused", <<>>)
             /\ UNCHANGED <<sessions, file, deleted, Rest>>
        ELSE \E cid \in ServerIds :
                /\ FreshId(cid)
                /\ GetState("app", cid, title, OkIO)
                /\ UNCHANGED Rest

\* GET /v1/sessions/list
list_sessions == ListSessions("app") /\ UNCHANGED Rest

\* POST /v1/memory/{conversation_id}/clear
clear_memory_messages ==
    \E cid \in ServerIds :
        ClearMessages("app", cid, OkIO) /\ UNCHANGED Rest

\* a delete_session that lets every ID through to the store
GuardsNothing(cid) == FALSE

\* delete_session: "Don't allow deleting default conversation"
GuardsDefault(cid) == cid = DEFAULT_CONV_ID

\* DELETE /v1/sessions/{conversation_id}
delete_session ==
    \E cid \in ServerIds :
        IF GuardsDefault(cid)
        THEN /\ last' = Returned("delete_session", "app", cid, "refused", <<>>)
             /\ UNCHANGED <<sessions, file, deleted, Rest>>
        ELSE DeleteConversation("app", cid, OkIO) /\ UNCHANGED Rest

WsRest == <<rvars, bvars, scall, env, pvars>>

\* websocket_chat, line 45: state_manager.get_state(conversation_id)
WsGetState ==
    /\ wsturn.pc = "idle"
    /\ \E cid \in ServerIds :
          /\ cid \in DOMAIN sessions["ws"]
                => Len(sessions["ws"][cid].messages) + 2 <= MaxMessages
          /\ GetState("ws", cid, NoTitle, OkIO)
          /\ wsturn' = [pc |-> "got_state", cid |-> cid]
    /\ UNCHANGED WsRest

\* websocket_chat, line 47: add_message(conversation_id, "user", message)
WsAddUser ==
    /\ wsturn.pc = "got_state"
    /\ AddMessage("ws", wsturn.cid, "user", "m", OkIO)
    /\ wsturn' = [wsturn EXCEPT !.pc = "user_added"]
    /\ UNCHANGED WsRest

\* websocket_chat, line 49: the state is read again for generate()
WsRefresh ==
    /\ wsturn.pc = "user_added"
    /\ GetState("ws", wsturn.cid, NoTitle, OkIO)
    /\ wsturn' = [wsturn EXCEPT !.pc = "generating"]
    /\ UNCHANGED WsRest

\* generate() raises (the model call fails): __ERROR__ and __DONE__ are sent
WsGenerateFails ==
    /\ wsturn.pc = "generating"
    /\ wsturn' = IdleTurn
    /\ UNCHANGED <<sessions, file, last, deleted, WsRest>>

\* pipeline.invoke_rag / no_rag_chatter: add_message(..., "assistant", reply)
WsAddAssistant ==
    /\ wsturn.pc = "generating"
    /\ AddMessage("ws", wsturn.cid, "assistant", "m", OkIO)
    /\ wsturn' = [wsturn EXCEPT !.pc = "answered"]
    /\ UNCHANGED WsRest

\* pipeline: the state is read once more, then the reply is streamed
WsDone ==
    /\ wsturn.pc = "answered"
    /\ GetState("ws", wsturn.cid, NoTitle, OkIO)
    /\ wsturn' = IdleTurn
    /\ UNCHANGED WsRest

NextServer ==
    \/ chat_completions
    \/ get_memory
    \/ create_session
    \/ list_sessions
    \/ clear_memory_messages
    \/ delete_session
    \/ WsGetState
    \/ WsAddUser
    \/ WsRefresh
    \/ WsGenerateFails
    \/ WsAddAssistant
    \/ WsDone

\* ------------------------------------------------------------------------
\* The pipeline graph: rag_desider, router, instructor, chatter
\* ------------------------------------------------------------------------
\* the characters of a classifier reply: a space and the letters of Yes / No
ReplyChars == {" ", "y", "Y", "e", "E", "s", "n"}

ClassifierReplies == SeqsUpTo(ReplyChars, MaxReplyLen)

\* how a call of the text-completion capability ends
LLMOutcomes == {"reply", "raises"}

\* str.lower() of one character
LowerChar(c) ==
    CASE c = "Y" -> "y"
      [] c = "E" -> "e"
      [] OTHER   -> c

\* str.lower()
Lower(text) == [n \in 1..Len(text) |-> LowerChar(text[n])]

RECURSIVE LStrip(_)
LStrip(text) ==
    IF text # <<>> /\ Head(text) = " " THEN LStrip(Tail(text)) ELSE text

RECURSIVE RStrip(_)
RStrip(text) ==
    IF text # <<>> /\ text[Len(text)] = " "
    THEN RStrip(SubSeq(text, 1, Len(text) - 1))
    ELSE text

\* str.strip()
Strip(text) == RStrip(LStrip(text))

\* the first word of text, which starts with no space
RECURSIVE Word(_)
Word(text) ==
    IF text = <<>> \/ Head(text) = " " THEN <<>> ELSE <<Head(text)>> \o Word(Tail(text))

\* str.split(): the words between runs of whitespace
RECURSIVE Split(_)
Split(text) ==
    LET rest == LStrip(text)
    IN  IF rest = <<>>
        THEN <<>>
        ELSE <<Word(rest)>> \o Split(SubSeq(rest, Len(Word(rest)) + 1, Len(rest)))

Yes == <<"y", "e", "s">>

\* a router that sends every request to the instructor
RouteAlwaysRag(rag_decision) == "invoke_rag"

\* router: state["next"]
Route(rag_decision) ==
    IF Lower(rag_decision) = Yes THEN "invoke_rag" ELSE "no_rag_chatter"

\* an except clause that gives up instead of answering without context
NoFallback(outcome) == [events |-> <<>>, replied |-> FALSE]

\* invoke_rag, except Exception: the base instructor prompt
Fallback(outcome) ==
    [events |-> <<"generate_base">>, replied |-> outcome = "reply"]

\* invoke_rag up to the reply: the calls it makes, in order, and whether a
\* reply came.  retrieval is what retriever.retrieve does ("passages",
\* "empty", "raises"), build what build_context / format_for_prompt do,
\* gen the model call inside the try, fallback the one in the except clause.
InstructorCalls(retrieval, build, gen, fallback) ==
    LET caught(events) ==
            [events  |-> events \o Fallback(fallback).events,
             replied |-> Fallback(fallback).replied]
    IN  CASE retrieval = "raises" -> caught(<<"retrieve">>)
          [] retrieval = "empty" ->
                IF gen = "reply"
                THEN [events |-> <<"retrieve", "generate_base">>, replied |-> TRUE]
                ELSE caught(<<"retrieve", "generate_base">>)
          [] OTHER ->
                IF build = "raises"
                THEN caught(<<"retrieve", "build_context">>)
                ELSE IF gen = "reply"
                THEN [events |-> <<"retrieve", "build_context", "generate_rag">>,
                      replied |-> TRUE]
                ELSE caught(<<"retrieve", "build_context", "generate_rag">>)

NoRag == [retrieval |-> "", build |-> "", gen |-> "", fallback |-> ""]

\* generate() is entered with the state the websocket handler read
NewRun(cid, messages, reply) ==
    [pc       |-> "start",
     cid      |-> cid,
     messages |-> messages,   \* state["messages"]
     before   |-> messages,   \* the conversation when the run began
     reply    |-> reply,      \* what the classifier model answers, if it does
     needs_medical_instructions |-> <<>>,
     next     |-> "",
     rag      |-> NoRag,
     events   |-> <<>>,
     failure  |-> "",
     answer   |-> ""]

IdleRun == [NewRun("", <<>>, <<>>) EXCEPT !.pc = "idle"]

\* node rag_desider
RagDesider ==
    /\ run.pc = "start"
    /\ \E outcome \in LLMOutcomes :
          LET words == Split(Strip(run.reply))
          IN  run' =
                IF outcome = "raises"
                THEN [run EXCEPT !.pc = "failed", !.failure = "classifier_call",
                                 !.events = @ \o <<"classify_call">>]
                ELSE IF words = <<>>
                THEN [run EXCEPT !.pc = "failed", !.failure = "IndexError",
                                 !.events = @ \o <<"classify_call", "classify_reply">>]
                ELSE [run EXCEPT !.pc = "classified",
                                 !.needs_medical_instructions = words[1],
                                 !.events = @ \o <<"classify_call", "classify_reply">>]
    /\ UNCHANGED <<rvars, bvars, sessions, file, last, deleted, scall, env, wsturn,
                   sock, llm, held>>

\* node router
Router ==
    /\ run.pc = "classified"
    /\ run' = [run EXCEPT !.pc = "routed",
                          !.next = Route(run.needs_medical_instructions)]
    /\ UNCHANGED <<rvars, bvars, sessions, file, last, deleted, scall, env, wsturn,
                   sock, llm, held>>

\* node instructor (invoke_rag) up to add_message
InvokeRag ==
    /\ run.pc = "routed"
    /\ run.next = "invoke_rag"
    /\ \E retrieval \in {"passages", "empty", "raises"}, build \in {"ok", "raises"},
          gen \in LLMOutcomes, fallback \in LLMOutcomes :
          LET calls == InstructorCalls(retrieval, build, gen, fallback)
              rag   == [retrieval |-> retrieval, build |-> build,
                        gen |-> gen, fallback |-> fallback]
          IN  IF calls.replied
              THEN /\ AddMessage("ws", run.cid, "assistant", "r", OkIO)
                   /\ run' = [run EXCEPT
                                !.pc = IF last'.result = "ok" THEN "replied" ELSE "failed",
                                !.failure = IF last'.result = "ok" THEN "" ELSE "add_message",
                                !.rag = rag,
                                !.events = @ \o calls.events]
              ELSE /\ run' = [run EXCEPT !.pc = "failed", !.failure = "generation",
                                         !.rag = rag,
                                         !.events = @ \o calls.events]
                   /\ UNCHANGED <<sessions, file, last, deleted>>
    /\ UNCHANGED <<rvars, bvars, scall, env, wsturn, sock, llm, held>>

\* node chatter (no_rag_chatter) up to add_message
NoRagChatter ==
    /\ run.pc = "routed"
    /\ run.next = "no_rag_chatter"
    /\ \E gen \in LLMOutcomes :
          IF gen = "reply"
          THEN /\ AddMessage("ws", run.cid, "assistant", "r", OkIO)
               /\ run' = [run EXCEPT
                            !.pc = IF last'.result = "ok" THEN "replied" ELSE "failed",
                            !.failure = IF last'.result = "ok" THEN "" ELSE "add_message",
                            !.events = @ \o <<"generate_chat">>]
          ELSE /\ run' = [run EXCEPT !.pc = "failed", !.failure = "generation",
                                     !.events = @ \o <<"generate_chat">>]
               /\ UNCHANGED <<sessions, file, last, deleted>>
    /\ UNCHANGED <<rvars, bvars, scall, env, wsturn, sock, llm, held>>

\* an answer taken from the wrong end of the list
FirstAnswerOf(messages) ==
    IF Len(messages) > 0 THEN messages[1].content ELSE "Error when generating the reply"

\* generate: the answer it returns from result["messages"]
AnswerOf(messages) ==
    IF Len(messages) > 0
    THEN messages[Len(messages)].content
    ELSE "Error when generating the reply"

\* the node's get_state refresh, then generate returns
RefreshAndReturn ==
    /\ run.pc = "replied"
    /\ GetState("ws", run.cid, NoTitle, OkIO)
    /\ run' = [run EXCEPT !.pc = "returned",
                          !.messages = last'.view.messages,
                          !.answer = AnswerOf(last'.view.messages)]
    /\ UNCHANGED <<rvars, bvars, scall, env, wsturn, sock, llm, held>>

NextPipeline ==
    \/ RagDesider
    \/ Router
    \/ InvokeRag
    \/ NoRagChatter
    \/ RefreshAndReturn

\* the conversation of the turn, as the websocket handler left it: an earlier
\* exchange or none, then the user's message
TurnConversations ==
    {[NewConversation("c1", "Untitled", "") EXCEPT !.messages = m] :
        m \in {<<CreateMessage("user", "m")>>,
               <<CreateMessage("user", "m"), CreateMessage("assistant", "r"),
                 CreateMessage("user", "m")>>}}

InitPipeline ==
    /\ \E conv \in TurnConversations, reply \in ClassifierReplies :
          /\ sessions = [i \in Instances |-> WithConversation(EmptyStore, "c1", conv)]
          /\ file = [state |-> "ok", data |-> sessions["ws"]]
          /\ last = Returned("get_state", "ws", "c1", "found",
                             [messages |-> conv.messages, title |-> conv.title,
                              summary |-> conv.summary])
          /\ run = NewRun("c1", conv.messages, reply)
    /\ deleted = {}
    /\ scall = NoCall
    /\ env = [ids |-> {"c1"}, faults |-> FALSE]
    /\ wsturn = IdleTurn

\* ------------------------------------------------------------------------
\* The chat websocket: websocket_chat on one connection
\* ------------------------------------------------------------------------
\* a key the payload does not have: payload.get(...) gives None
None == "None"

\* the text frames a client can send: text that is no JSON, JSON that is no
\* object, and objects with each of the two keys absent, empty or filled
Frames ==
    {[kind |-> k, message |-> None, conversation_id |-> None] :
        k \in {"not_json", "not_object"}}
    \cup [kind : {"object"}, message : {None, "", "m"},
          conversation_id : {None, "", "c1"}]

\* a test that lets empty strings through
IncompleteIfAbsent(message, conversation_id) ==
    message = None \/ conversation_id = None

\* websocket_chat: not message or not conversation_id
Incomplete(message, conversation_id) ==
    message \in {None, ""} \/ conversation_id \in {None, ""}

NoFrame == [kind |-> "", message |-> None, conversation_id |-> None]

\* the characters of a reply of generate(): a word character, whitespace, and
\* "A" for the text "assistant:" in any spelling of its letters
StreamChars == {"w", " ", "A"}

\* the non-empty replies generate() returns
StreamReplies == SeqsUpTo(StreamChars, MaxReplyLen) \ {<<>>}

\* the end of the last "assistant:" of the text, 0 when it has none
LastMarker(text) ==
    IF \E n \in 1..Len(text) : text[n] = "A"
    THEN CHOOSE n \in 1..Len(text) :
            text[n] = "A" /\ \A m \in (n + 1)..Len(text) : text[m] # "A"
    ELSE 0

\* re.split(r'(?i)assistant:\s*', full_resp): parts[-1].strip() when the
\* pattern matched, full_resp.strip() when it did not
AssistantReply(full_resp) ==
    Strip(SubSeq(full_resp, LastMarker(full_resp) + 1, Len(full_resp)))

\* the length of the run of characters of one kind the text begins with
RunOf(text) ==
    CHOOSE n \in 1..Len(text) :
        /\ \A m \in 1..n : (text[m] = " ") <=> (text[1] = " ")
        /\ n < Len(text) => ((text[n + 1] = " ") # (text[1] = " "))

RECURSIVE WordChunks(_)
\* a plausible slip: split() in place of the capturing pattern, which drops
\* the whitespace between the words
WordChunks(text) ==
    IF text = <<>> THEN <<>>
    ELSE LET n    == RunOf(text)
             rest == WordChunks(SubSeq(text, n + 1, Len(text)))
         IN  IF text[1] = " " THEN rest ELSE <<SubSeq(text, 1, n)>> \o rest

RECURSIVE Chunks(_)
\* re.split(r'(\s+)', assistant_reply) without its empty strings: the words
\* and the runs of whitespace between them, in order
Chunks(text) ==
    IF text = <<>> THEN <<>>
    ELSE LET n == RunOf(text)
         IN  <<SubSeq(text, 1, n)>> \o Chunks(SubSeq(text, n + 1, Len(text)))

IdleSock ==
    [pc |-> "unused", open |-> "open", frame |-> NoFrame, sent |-> <<>>,
     frames |-> 0, generated |-> 0, tokens |-> 0,
     before |-> EmptyStore,   \* the handler's store when the frame arrived
     reply  |-> <<>>,         \* what generate() returned for the frame
     chunks |-> <<>>]         \* the reply chunks sent for it, in order

\* websocket.accept() has returned, receive_text() is awaited
NewSock == [IdleSock EXCEPT !.pc = "idle"]

SockRest == <<rvars, bvars, scall, env, wsturn, run, llm, held>>

\* receive_text, json.loads, the payload test and, for a complete payload,
\* the first get_state
SockReceive ==
    /\ sock.pc = "idle"
    /\ sock.frames < MaxFrames
    /\ \E frame \in Frames :
          LET got == [sock EXCEPT !.frame = frame, !.frames = @ + 1, !.sent = <<>>,
                                  !.before = sessions["ws"],
                                  !.reply = <<>>, !.chunks = <<>>]
          IN  IF frame.kind # "object"
              THEN \* JSONDecodeError or AttributeError reaches the outer
                   \* except Exception: websocket.close() and return
                   /\ sock' = [got EXCEPT !.pc = "returned", !.open = "closed_by_server"]
                   /\ UNCHANGED <<sessions, file, last, deleted>>
              ELSE IF Incomplete(frame.message, frame.conversation_id)
              THEN /\ sock' = [got EXCEPT !.sent = <<"__ERROR__">>]
                   /\ UNCHANGED <<sessions, file, last, deleted>>
              ELSE /\ GetState("ws", frame.conversation_id, NoTitle, OkIO)
                   /\ sock' = [got EXCEPT !.pc = "got_state"]
    /\ UNCHANGED SockRest

\* the client closes while receive_text is awaited: WebSocketDisconnect
SockDisconnect ==
    /\ sock.pc = "idle"
    /\ sock' = [sock EXCEPT !.pc = "returned", !.open = "client_gone"]
    /\ UNCHANGED <<sessions, file, last, deleted, SockRest>>

\* add_message(conversation_id, "user", message)
SockAddUser ==
    /\ sock.pc = "got_state"
    /\ AddMessage("ws", sock.frame.conversation_id, "user", sock.frame.message, OkIO)
    /\ sock' = [sock EXCEPT !.pc = "user_added"]
    /\ UNCHANGED SockRest

\* the second get_state
SockRefresh ==
    /\ sock.pc = "user_added"
    /\ GetState("ws", sock.frame.conversation_id, NoTitle, OkIO)
    /\ sock' = [sock EXCEPT !.pc = "generating"]
    /\ UNCHANGED SockRest

\* await generate(...): it raises, or it has stored the assistant's reply
\* and returns it; the reply may be the empty string
SockGenerate ==
    /\ sock.pc = "generating"
    /\ \E outcome \in {"raises", "answer", "empty_answer"}, reply \in StreamReplies :
          CASE outcome = "raises" ->
                  /\ sock' = [sock EXCEPT !.pc = "idle", !.generated = @ + 1,
                                          !.sent = @ \o <<"__ERROR__", "__DONE__">>]
                  /\ UNCHANGED <<sessions, file, last, deleted>>
            [] outcome = "empty_answer" ->
                  /\ AddMessage("ws", sock.frame.conversation_id, "assistant", "", OkIO)
                  /\ sock' = [sock EXCEPT !.pc = "idle", !.generated = @ + 1,
                                          !.sent = @ \o <<"apology", "__DONE__">>]
            [] OTHER ->
                  /\ AddMessage("ws", sock.frame.conversation_id, "assistant", "r", OkIO)
                  /\ sock' = [sock EXCEPT !.pc = "streaming", !.generated = @ + 1,
                                          !.reply = reply,
                                          !.tokens = Len(Chunks(AssistantReply(reply)))]
    /\ UNCHANGED SockRest

\* the token loop, the audio frame when text_to_speech succeeds, __DONE__;
\* or the client goes away after some tokens and every later send raises
SockStream ==
    /\ sock.pc = "streaming"
    /\ \E tts \in {"ok", "fails"}, delivered \in 0..sock.tokens, client \in {"here", "gone"} :
          sock' =
            IF client = "here"
            THEN [sock EXCEPT
                    !.pc = "idle",
                    !.chunks = Chunks(AssistantReply(sock.reply)),
                    !.sent = @ \o [n \in 1..sock.tokens |-> "token"]
                               \o (IF tts = "ok" THEN <<"__AUDIO__">> ELSE <<>>)
                               \o <<"__DONE__">>]
            ELSE [sock EXCEPT
                    !.pc = "returned", !.open = "client_gone",
                    !.chunks = SubSeq(Chunks(AssistantReply(sock.reply)), 1, delivered),
                    !.sent = @ \o [n \in 1..delivered |-> "token"]]
    /\ UNCHANGED <<sessions, file, last, deleted, SockRest>>

NextSocket ==
    \/ SockReceive
    \/ SockDisconnect
    \/ SockAddUser
    \/ SockRefresh
    \/ SockGenerate
    \/ SockStream

\* ------------------------------------------------------------------------
\* LLMObject._generate_sync
\* ------------------------------------------------------------------------
Providers == {"bedrock", "openai"}

\* what one model invocation gives: a response of one of the three shapes
\* the code reads, or an exception with the given text
Responses == {"has_content", "dict_content", "other"}

\* the exceptions an invocation can raise: whether the provider refused for
\* its rate limit, and the words of str(e)
Errors ==
    {[rate_limit |-> TRUE,  text |-> <<"ThrottlingException">>],
     [rate_limit |-> TRUE,  text |-> <<"An error occurred (", "ThrottlingException",
                                       ") when calling the Converse operation">>],
     [rate_limit |-> TRUE,  text |-> <<"Error code: 429", "Rate limit reached">>],
     [rate_limit |-> FALSE, text |-> <<"ValidationException">>],
     [rate_limit |-> FALSE, text |-> <<"Read timed out">>]}

\* word in text
Contains(text, word) == \E n \in 1..Len(text) : text[n] = word

\* what each provider's client raises
ErrorsOf(provider) ==
    {e \in Errors :
        \/ ~e.rate_limit
        \/ provider = "bedrock" /\ Contains(e.text, "ThrottlingException")
        \/ provider = "openai" /\ ~Contains(e.text, "ThrottlingException")}

\* "ThrottlingException" in str(e)
IsThrottling(e) == Contains(e.text, "ThrottlingException")

IdleLLM ==
    [provider |-> "", pc |-> "unused", attempts |-> <<>>, delay |-> 0,
     slept |-> <<>>, result |-> ""]

NewLLMCall(provider) ==
    [IdleLLM EXCEPT !.provider = provider, !.pc = "calling", !.delay = INITIAL_DELAY]

LLMRest == <<rvars, bvars, svars_store, run, sock, held>>

\* one pass of the bedrock loop: for attempt in range(max_retries)
BedrockAttempt ==
    /\ llm.pc = "calling"
    /\ llm.provider = "bedrock"
    /\ Len(llm.attempts) < MAX_RETRIES
    /\ \/ \E response \in Responses :
             llm' = [llm EXCEPT !.attempts = Append(@, [rate_limit |-> FALSE,
                                                              text |-> <<response>>]),
                                !.pc = "returned", !.result = response]
       \/ \E e \in ErrorsOf(llm.provider) :
             llm' = IF IsThrottling(e)
                    THEN [llm EXCEPT !.attempts = Append(@, e),
                                     !.slept = Append(@, llm.delay),
                                     !.delay = @ * 2]
                    ELSE [llm EXCEPT !.attempts = Append(@, e),
                                     !.pc = "raised", !.result = "error"]
    /\ UNCHANGED LLMRest

\* the loop is exhausted: RuntimeError("Bedrock API throttled: ...")
BedrockExhausted ==
    /\ llm.pc = "calling"
    /\ llm.provider = "bedrock"
    /\ Len(llm.attempts) = MAX_RETRIES
    /\ llm' = [llm EXCEPT !.pc = "raised", !.result = "RuntimeError"]
    /\ UNCHANGED LLMRest

\* the openai branch: one chat.completions.create call, nothing caught
OpenAICall ==
    /\ llm.pc = "calling"
    /\ llm.provider = "openai"
    /\ \/ \E response \in Responses :
             llm' = [llm EXCEPT !.attempts = Append(@, [rate_limit |-> FALSE,
                                                              text |-> <<response>>]),
                                !.pc = "returned", !.result = response]
       \/ \E e \in ErrorsOf(llm.provider) :
             llm' = [llm EXCEPT !.attempts = Append(@, e),
                                !.pc = "raised", !.result = "error"]
    /\ UNCHANGED LLMRest

NextLLM == BedrockAttempt \/ BedrockExhausted \/ OpenAICall

InitLLM == \E provider \in Providers : llm = NewLLMCall(provider)

\* ------------------------------------------------------------------------
\* Specifications
\* ------------------------------------------------------------------------
IdlePipeline == run = IdleRun /\ sock = IdleSock /\ llm = IdleLLM /\ held = NoView

RetrieverStart == InitRetriever /\ IdleBuilder /\ IdleStore /\ IdlePipeline

SpecRetriever == RetrieverStart /\ [][NextRetriever]_vars

BuilderStart == InitBuilder /\ IdleRetriever /\ IdleStore /\ IdlePipeline

SpecBuilder == BuilderStart /\ [][NextBuilder]_vars

StoreStart ==
    InitStore({"c1", "c2"}, FALSE) /\ IdleRetriever /\ IdleBuilder /\ IdlePipeline

\* one store instance, every file operation succeeding
SpecStore == StoreStart /\ [][NextStore]_vars

FaultyStoreStart ==
    InitStore({"c1"}, TRUE) /\ IdleRetriever /\ IdleBuilder /\ IdlePipeline

\* one store instance, file operations that may fail
SpecFaultyStore == FaultyStoreStart /\ [][NextStore]_vars

\* one store instance whose reads of the file may fail, its writes succeeding
SpecLoadFailure == StoreStart /\ [][NextLoadFailure]_vars

\* one store instance and a caller that keeps the view it was given
SpecView == StoreStart /\ [][NextView]_vars

RoundTripStart == InitRoundTrip /\ IdleRetriever /\ IdleBuilder /\ IdlePipeline

SpecRoundTrip == RoundTripStart /\ [][NextRoundTrip]_vars

ServerStart == InitServer /\ IdleRetriever /\ IdleBuilder /\ IdlePipeline

SpecServer == ServerStart /\ [][NextServer]_vars

PipelineStart ==
    InitPipeline /\ sock = IdleSock /\ llm = IdleLLM /\ held = NoView /\ IdleRetriever /\ IdleBuilder

\* one run of generate() on the websocket's store instance
SpecPipeline == PipelineStart /\ [][NextPipeline]_vars

SocketStart ==
    /\ InitStore({"c1"}, FALSE)
    /\ run = IdleRun /\ sock = NewSock /\ llm = IdleLLM /\ held = NoView
    /\ IdleRetriever /\ IdleBuilder

\* one websocket connection and the frames a client sends on it
SpecSocket == SocketStart /\ [][NextSocket]_vars

LLMStart ==
    IdleStore /\ run = IdleRun /\ sock = IdleSock /\ InitLLM /\ held = NoView /\ IdleRetriever /\ IdleBuilder

\* one completion call
SpecLLM == LLMStart /\ [][NextLLM]_vars

\* ------------------------------------------------------------------------
\* Properties of the retriever
\* ------------------------------------------------------------------------
\* the top_k bound the caller asked for: its argument, or the configured
\* default when it passed none
RequestedTopK == IF rcall.top_k = NoneArg THEN retriever.top_k ELSE rcall.top_k

\* s ranks above t in the candidate list c: higher score, or the same score
\* and earlier in retrieval order
RanksAbove(c, i, j) ==
    \/ c[i].score > c[j].score
    \/ c[i].score = c[j].score /\ i < j

InSeq(p, s) == \E n \in 1..Len(s) : s[n] = p

\* C2: retrieve returns at most top_k passages (the caller's value, any
\* non-negative integer, or the default when none is passed), each with
\* score >= similarity_threshold, with deduplication on or off.
C2_AtMostTopKAboveThreshold ==
    (rcall.op = "retrieve" /\ rret.returned) =>
        /\ Len(rret.final) <= RequestedTopK
        /\ \A i \in 1..Len(rret.final) :
              rret.final[i].score >= retriever.similarity_threshold

\* C3: the deduplicated result holds no two passages whose text-similarity
\* ratio is >= dedup_threshold.
C3_NoNearDuplicatesLeft ==
    (rret.returned /\ (rcall.op = "dedup" \/ rcall.apply_dedup)) =>
        \A i, j \in 1..Len(rret.unique) :
            i # j => ~SimilarAtLeast(rret.unique[i].content, rret.unique[j].content,
                                     retriever.dedup_threshold)

\* C4 as stated: of every near-duplicate pair of candidates, the member that
\* ranks above the other is in the deduplicated result.
C4_HigherOfEveryPairKept ==
    rret.returned =>
        \A i, j \in 1..Len(rret.candidates) :
            (/\ RanksAbove(rret.candidates, i, j)
             /\ SimilarAtLeast(rret.candidates[j].content, rret.candidates[i].content,
                               retriever.dedup_threshold))
            => InSeq(rret.candidates[i], rret.unique)

\* C4 amended: of every near-duplicate pair of candidates (the ratio of the
\* lower-ranked text against the higher-ranked one is >= dedup_threshold), the
\* lower-ranked member is never in the result together with the higher-ranked
\* one, and the higher-ranked member is in the result unless it is itself a
\* near-duplicate of a retained candidate that ranks above it.
C4_HigherKeptUnlessItselfDuplicate ==
    rret.returned =>
        \A i, j \in 1..Len(rret.candidates) :
            (/\ RanksAbove(rret.candidates, i, j)
             /\ SimilarAtLeast(rret.candidates[j].content, rret.candidates[i].content,
                               retriever.dedup_threshold))
            => /\ ~(InSeq(rret.candidates[i], rret.unique)
                    /\ InSeq(rret.candidates[j], rret.unique))
               /\ \/ InSeq(rret.candidates[i], rret.unique)
                  \/ \E k \in 1..Len(rret.candidates) :
                        /\ RanksAbove(rret.candidates, k, i)
                        /\ InSeq(rret.candidates[k], rret.unique)
                        /\ SimilarAtLeast(rret.candidates[i].content,
                                          rret.candidates[k].content,
                                          retriever.dedup_threshold)

\* a deduplication that discarded the higher-ranked member of a pair because
\* it duplicates a candidate ranked still higher, and kept the lower one
C4_Witness ==
    /\ rret.returned
    /\ \E i, j \in 1..Len(rret.candidates) :
          /\ RanksAbove(rret.candidates, i, j)
          /\ SimilarAtLeast(rret.candidates[j].content, rret.candidates[i].content,
                            retriever.dedup_threshold)
          /\ ~InSeq(rret.candidates[i], rret.unique)
          /\ InSeq(rret.candidates[j], rret.unique)

\* ------------------------------------------------------------------------
\* Properties of the context builder
\* ------------------------------------------------------------------------
RECURSIVE TokensOfParts(_, _)
\* the tokens of the first n included passages, each with its separator
TokensOfParts(parts, n) ==
    IF n = 0 THEN 0
    ELSE TokensOfParts(parts, n - 1) + CountTokens(parts[n] \o Separator)

\* context_data.get("total_tokens", 0), as the callers read the field
TotalTokens == IF "total_tokens" \in bret.keys THEN bret.total_tokens ELSE 0

\* the passages the loop walked: the included ones and the one that hit the
\* budget
Walked == 1..Min2(bret.num_passages + 1, Len(bcall.passages))

FirstSeen(source) ==
    CHOOSE k \in 1..Len(bcall.passages) :
        /\ SourceOf(bcall.passages[k]) = source
        /\ \A m \in 1..(k - 1) : SourceOf(bcall.passages[m]) # source

\* C1: the total_tokens of the result of build_context is the sum of the
\* token counts of the included formatted passages with their separators, is
\* at most max_context_tokens, and so is the running total after each
\* included passage.
C1_TotalTokensWithinBudget ==
    bret.returned =>
        /\ TotalTokens = TokensOfParts(bret.context_parts, Len(bret.context_parts))
        /\ TotalTokens <= builder.max_context_tokens
        /\ \A n \in 1..Len(bret.context_parts) :
              TokensOfParts(bret.context_parts, n) <= builder.max_context_tokens

\* a call in which the budget cut the list after at least one passage
C1_Witness ==
    /\ bret.returned
    /\ bret.num_passages >= 1
    /\ bret.num_passages < Len(bcall.passages)
    /\ bret.total_tokens > 0

\* C5: in one build_context call every source of a walked passage has exactly
\* one citation number, the one every included passage of that source is
\* labelled with; the numbers follow the order in which the sources first
\* appear in the input and are exactly 1..num_sources.
C5_CitationNumbering ==
    (bret.returned /\ bcall.passages # <<>>) =>
        /\ DOMAIN bret.citation_map = {SourceOf(bcall.passages[k]) : k \in Walked}
        /\ {bret.citation_map[s] : s \in DOMAIN bret.citation_map} = 1..bret.num_sources
        /\ \A s, t \in DOMAIN bret.citation_map :
              /\ (bret.citation_map[s] = bret.citation_map[t]) => s = t
              /\ (bret.citation_map[s] < bret.citation_map[t])
                    <=> (FirstSeen(s) < FirstSeen(t))
        /\ bcall.include_metadata =>
              \A k \in 1..bret.num_passages :
                 SubSeq(bret.context_parts[k], 1, 4)
                    = SourcePrefix(bret.citation_map[SourceOf(bcall.passages[k])])
        /\ \A n \in 1..Len(bret.citations) :
              /\ bret.citations[n].num = n
              /\ bret.citation_map[bret.citations[n].source] = n
        /\ Len(bret.citations) = bret.num_sources

\* a call with two sources, the first of them on two included passages
C5_Witness ==
    /\ bret.returned
    /\ bret.num_sources = 2
    /\ bret.num_passages = 3
    /\ bcall.include_metadata
    /\ SourceOf(bcall.passages[1]) = SourceOf(bcall.passages[3])
    /\ SourceOf(bcall.passages[1]) # SourceOf(bcall.passages[2])

\* ------------------------------------------------------------------------
\* Properties of the store
\* ------------------------------------------------------------------------
\* the calls that changed the store and returned normally
MutatingReturn ==
    \/ last.op = "get_state" /\ last.result = "created"
    \/ last.op = "update_state"
    \/ last.op = "add_message" /\ last.result = "ok"
    \/ last.op = "clear_messages" /\ last.result = "true"
    \/ last.op = "delete_conversation" /\ last.result = "true"

\* C6: add_message on a conversation ID that is not in the store ends in the
\* not-found error and leaves the in-memory conversations and the file as they
\* were, also when the file and the memory differ so that a flush would show.
C6_AddMessageUnknownIdChangesNothing ==
    [][(last'.op = "add_message" /\ last'.cid \notin DOMAIN sessions[last'.inst])
          => /\ last'.result = "not_found"
             /\ sessions' = sessions
             /\ file' = file]_vars

\* add_message was refused while the file held something else than the memory
C6_Witness ==
    /\ last.op = "add_message"
    /\ last.result = "not_found"
    /\ file.state = "ok"
    /\ file.data # sessions[last.inst]

\* C7: whenever a mutating operation has returned normally, the file holds
\* exactly the in-memory conversations of the instance, I/O errors included.
C7_FileHoldsStoreAfterMutation ==
    MutatingReturn => file.state = "ok" /\ file.data = sessions[last.inst]

\* C8: get_state after update_state returns as many messages as were passed,
\* in the same order, each with a non-empty message_id and timestamp.
C8_RoundTripMintsIdAndTimestamp ==
    last.op = "get_state" =>
        LET passed == scall.state.messages
            got    == last.view.messages
        IN  /\ Len(got) = Len(passed)
            /\ \A n \in 1..Len(passed) :
                  /\ got[n].role = passed[n].role
                  /\ got[n].content = passed[n].content
                  /\ got[n].message_id > 0
                  /\ got[n].timestamp > 0

\* C9 as stated: an ID that delete_conversation has removed never names an
\* existing conversation again.
C9_DeletedNeverExistsAgain ==
    [][\A c \in deleted :
          c \notin DOMAIN sessions["app"] => c \notin DOMAIN sessions'["app"]]_vars

\* C9: an ID that delete_conversation has removed stays absent under
\* add_message, clear_messages, delete_conversation, get_messages and
\* list_sessions; only get_state or update_state naming that ID makes it exist
\* again, and get_state makes it a new conversation without messages.
C9_DeletedReturnsOnlyByGetOrUpdate ==
    [][\A c \in deleted :
          (c \notin DOMAIN sessions["app"] /\ c \in DOMAIN sessions'["app"])
             => /\ last'.op \in {"get_state", "update_state"}
                /\ last'.cid = c
                /\ last'.op = "get_state"
                      => /\ sessions'["app"][c].messages = <<>>
                         /\ sessions'["app"][c].title \in {"Untitled", "T"}]_vars

\* add_message named a removed ID and the ID is still absent
C9_Witness ==
    /\ last.op = "add_message"
    /\ last.result = "not_found"
    /\ last.cid \in deleted
    /\ last.cid \notin DOMAIN sessions["app"]
    /\ sessions["app"] # EmptyStore

\* ------------------------------------------------------------------------
\* Properties of the server
\* ------------------------------------------------------------------------
\* C10: delete_session refuses the default conversation ID without calling the
\* store's delete, and the default conversation exists in the store of the
\* endpoints and in the file after every sequence of calls.
C10_DefaultConversationSurvives ==
    /\ DEFAULT_CONV_ID \in DOMAIN sessions["app"]
    /\ file.state = "ok" /\ DEFAULT_CONV_ID \in DOMAIN file.data
    /\ DEFAULT_CONV_ID \notin deleted
    /\ ~(last.op = "delete_conversation" /\ last.cid = DEFAULT_CONV_ID)
    /\ last.op = "delete_session"
          => last.cid = DEFAULT_CONV_ID /\ last.result = "refused"

\* the default ID was refused after another session had been deleted
C10_Witness ==
    /\ last.op = "delete_session"
    /\ last.cid = DEFAULT_CONV_ID
    /\ last.result = "refused"
    /\ deleted # {}

\* ------------------------------------------------------------------------
\* Properties of the pipeline
\* ------------------------------------------------------------------------
Happened(event) == \E n \in 1..Len(run.events) : run.events[n] = event

\* the first whitespace-delimited token of the reply is "yes" in some casing
SaysYes(reply) ==
    \E k \in 0..Len(reply) :
        /\ \A n \in 1..k : reply[n] = " "
        /\ Len(reply) >= k + 3
        /\ reply[k + 1] \in {"y", "Y"}
        /\ reply[k + 2] \in {"e", "E"}
        /\ reply[k + 3] \in {"s", "S"}
        /\ Len(reply) = k + 3 \/ reply[k + 4] = " "

\* C11: whatever text the classifier replies, the request goes to the
\* instructor branch exactly when the first whitespace-delimited token of the
\* reply is a case-insensitive "yes", and to the chatter branch otherwise.
C11_DispatchedByFirstToken ==
    Happened("classify_reply") =>
        /\ run.failure # "IndexError"
        /\ run.next # "" =>
              run.next = IF SaysYes(run.reply) THEN "invoke_rag" ELSE "no_rag_chatter"
        /\ Happened("retrieve") => SaysYes(run.reply)
        /\ Happened("generate_chat") => ~SaysYes(run.reply)

\* C12: retrieve and build_context are invoked only in runs whose verdict is
\* "yes", and every generation call comes after the classifier has replied.
C12_RetrievalOnlyAfterYes ==
    /\ (Happened("retrieve") \/ Happened("build_context"))
          => Lower(run.needs_medical_instructions) = <<"y", "e", "s">>
    /\ \A n \in 1..Len(run.events) :
          run.events[n] \in {"retrieve", "build_context", "generate_base",
                             "generate_rag", "generate_chat"}
             => \E m \in 1..(n - 1) : run.events[m] = "classify_reply"

\* a run with another verdict than "yes" that answered from the chatter
C12_Witness ==
    /\ run.pc = "returned"
    /\ run.needs_medical_instructions = <<"n">>
    /\ Happened("generate_chat")

\* C13: when generate returns an answer, the conversation in the store is the
\* conversation the run began with plus one assistant message, whose content
\* is the returned answer.
C13_OneAssistantMessageAppended ==
    run.pc = "returned" =>
        LET messages == sessions["ws"][run.cid].messages
            n        == Len(run.before)
        IN  /\ Len(messages) = n + 1
            /\ SubSeq(messages, 1, n) = run.before
            /\ messages[n + 1].role = "assistant"
            /\ messages[n + 1].content = run.answer

\* the instructor branch answered with retrieved context
C13_Witness ==
    /\ run.pc = "returned"
    /\ Happened("generate_rag")
    /\ Len(run.before) = 3

\* the model call with the base instructor prompt gives a reply
BaseReplyComes ==
    IF run.rag.retrieval = "empty"
    THEN run.rag.gen = "reply" \/ run.rag.fallback = "reply"
    ELSE run.rag.fallback = "reply"

\* C14: in the instructor branch, when retrieve returns nothing or raises, or
\* context building raises, the run does not fail: the model is called with
\* the base instructor prompt and its reply is appended as a new assistant
\* message.
C14_RetrievalFailureFallsBack ==
    (/\ \/ run.rag.retrieval \in {"empty", "raises"}
        \/ run.rag.retrieval = "passages" /\ run.rag.build = "raises"
     /\ BaseReplyComes)
    => /\ run.pc \in {"replied", "returned"}
       /\ run.events[Len(run.events)] = "generate_base"
       /\ ~Happened("generate_rag")
       /\ LET messages == sessions["ws"][run.cid].messages
          IN  /\ Len(messages) = Len(run.before) + 1
              /\ messages[Len(messages)].role = "assistant"

\* retrieve raised and the run still returned an answer
C14_Witness ==
    /\ run.pc = "returned"
    /\ run.rag.retrieval = "raises"

\* ------------------------------------------------------------------------
\* Properties of the websocket
\* ------------------------------------------------------------------------
Sentinels == {"__DONE__", "__ERROR__"}

\* the handling of the frame in hand is over and the client is still there
RequestOver ==
    /\ sock.frames > 0
    /\ sock.pc \in {"idle", "returned"}
    /\ sock.open # "client_gone"

\* C15: when the handling of a frame is over, whatever the frame held, one of
\* the two sentinels has been sent, and the server has not closed the socket
\* without one.
C15_EveryFrameGetsSentinel ==
    RequestOver => \E n \in 1..Len(sock.sent) : sock.sent[n] \in Sentinels

\* C16: the frames sent for a chat request end with exactly one sentinel, and
\* nothing follows the error sentinel.
C16_ExactlyOneSentinelLast ==
    (RequestOver /\ sock.frame.kind = "object") =>
        /\ sock.sent # <<>>
        /\ sock.sent[Len(sock.sent)] \in Sentinels
        /\ \A n \in 1..(Len(sock.sent) - 1) : sock.sent[n] \notin Sentinels

\* C17: a payload whose message or conversation_id is missing or empty is
\* answered with the error signal alone; the store, the file and the pipeline
\* are not touched and the handler waits for the next frame.
C17_IncompletePayloadRejectedFirst ==
    [][(/\ sock'.frames = sock.frames + 1
        /\ sock'.frame.kind = "object"
        /\ \/ sock'.frame.message \in {"None", ""}
           \/ sock'.frame.conversation_id \in {"None", ""})
       => /\ sessions' = sessions
          /\ file' = file
          /\ sock'.generated = sock.generated
          /\ sock'.sent = <<"__ERROR__">>
          /\ sock'.pc = "idle"
          /\ sock'.open = "open"]_vars

\* an incomplete payload was refused on a connection that had served a chat
\* request before
C17_Witness ==
    /\ sock.frames = 2
    /\ sock.frame.kind = "object"
    /\ sock.frame.message = ""
    /\ sock.sent = <<"__ERROR__">>
    /\ sock.pc = "idle"
    /\ sessions["ws"] # EmptyStore

\* ------------------------------------------------------------------------
\* Properties of the completion call
\* ------------------------------------------------------------------------
RECURSIVE Doubled(_)
Doubled(n) == IF n = 0 THEN 1 ELSE 2 * Doubled(n - 1)

\* C18: with either provider a call makes at most 5 attempts; a rate-limited
\* attempt is followed by a sleep (1 s, then doubling) and another attempt,
\* any other failure ends the call at once, and the call ends with an error
\* after the 5th rate-limited attempt.
C18_RetriesRateLimitWithBackoff ==
    LET n == Len(llm.attempts)
    IN  /\ n <= 5
        /\ \A k \in 1..Len(llm.slept) : llm.slept[k] = Doubled(k - 1)
        /\ \A k \in 1..n :
              llm.attempts[k].rate_limit =>
                 /\ Len(llm.slept) >= k
                 /\ llm.pc = "raised" => k < n \/ n = 5
        /\ (llm.pc = "raised" /\ n > 0 /\ ~llm.attempts[n].rate_limit)
              => \A k \in 1..(n - 1) : llm.attempts[k].rate_limit

\* ------------------------------------------------------------------------
\* Properties of the two instances
\* ------------------------------------------------------------------------
\* C19: get_messages on the endpoints' instance returns the message list the
\* file holds for the conversation, whichever instance flushed it last, and
\* the empty list for an ID the file does not hold.
C19_GetMessagesReadsFile ==
    last.op = "get_messages" =>
        last.view = IF last.cid \in DOMAIN file.data
                    THEN file.data[last.cid].messages
                    ELSE <<>>

\* get_messages returned messages that only the other instance had stored
C19_Witness ==
    /\ last.op = "get_messages"
    /\ last.inst = "app"
    /\ last.view # <<>>
    /\ sessions["ws"] # sessions["app"]

\* ------------------------------------------------------------------------
\* build_context on an empty list
\* ------------------------------------------------------------------------
\* a count of the result as get_context_summary and invoke_rag read it
CountRead(key, value) == IF key \in bret.keys THEN value ELSE 0

C21_GetStateCreatesOnlyWhenUnknown ==
    [][\A cid \in env.ids, title \in TitleArgs :
          GetState("app", cid, title, OkIO) =>
             IF cid \notin DOMAIN sessions["app"]
             THEN /\ DOMAIN sessions'["app"] = DOMAIN sessions["app"] \cup {cid}
                  /\ sessions'["app"][cid].messages = <<>>
                  /\ sessions'["app"][cid].title
                        = (IF title = NoTitle THEN "Untitled" ELSE title)
                  /\ \A c \in DOMAIN sessions["app"] :
                        sessions'["app"][c] = sessions["app"][c]
                  /\ sessions'["ws"] = sessions["ws"]
                  /\ file' = [state |-> "ok", data |-> sessions'["app"]]
             ELSE /\ sessions' = sessions
                  /\ file' = file
                  /\ last'.view.title = sessions["app"][cid].title]_vars

\* get_state has just created a titled conversation next to another one that
\* holds a message
C21_Witness ==
    /\ last.op = "get_state"
    /\ last.result = "created"
    /\ last.view.title = "T"
    /\ \E c \in DOMAIN sessions["app"] :
          c # last.cid /\ sessions["app"][c].messages # <<>>

\* C24 (as claimed): add_message, clear_messages, delete_conversation,
\* get_messages and update_state called with an ID that is not in the store
\* never add that ID to the store; clear_messages and delete_conversation
\* return false and add_message signals not-found.
C24_OnlyGetStateCreates ==
    [][(/\ last'.op \in {"add_message", "clear_messages", "delete_conversation",
                         "get_messages", "update_state"}
        /\ last'.cid \notin DOMAIN sessions[last'.inst])
          => /\ last'.cid \notin DOMAIN sessions'[last'.inst]
             /\ last'.op = "add_message" => last'.result = "not_found"
             /\ last'.op \in {"clear_messages", "delete_conversation"}
                   => last'.result = "false"]_vars

\* C24 (amended): add_message, clear_messages and delete_conversation called
\* with an ID that is not in the store change neither store nor file and
\* answer not-found, false and false; get_messages leaves the store as the
\* file has it, so adds no ID the file does not hold; update_state with such
\* an ID creates the conversation and flushes.
C24_OnlyGetStateAndUpdateStateCreate ==
    [][LET i       == last'.inst
           cid     == last'.cid
           unknown == cid \notin DOMAIN sessions[i]
       IN  /\ (last'.op \in {"add_message", "clear_messages", "delete_conversation"}
                  /\ unknown)
                 => /\ sessions' = sessions
                    /\ file' = file
                    /\ last'.result
                          = (IF last'.op = "add_message" THEN "not_found" ELSE "false")
           /\ (last'.op = "get_messages")
                 => /\ sessions'[i] = file.data
                    /\ (unknown /\ cid \notin DOMAIN file.data)
                          => cid \notin DOMAIN sessions'[i]
           /\ (last'.op = "update_state" /\ unknown)
                 => /\ cid \in DOMAIN sessions'[i]
                    /\ file'.data = sessions'[i]]_vars

\* delete_conversation was refused for an ID the store does not hold while
\* the store holds another conversation
C24_Witness ==
    /\ last.op = "delete_conversation"
    /\ last.result = "false"
    /\ last.cid \notin DOMAIN sessions["app"]
    /\ sessions["app"] # EmptyStore

\* ------------------------------------------------------------------------
\* Further properties of the context builder
\* ------------------------------------------------------------------------
\* the formatted form of passage k of the call, under the number its source has
FormattedInput(k) ==
    FormatPassage(bcall.passages[k],
                  bret.citation_map[SourceOf(bcall.passages[k])],
                  bcall.include_metadata)

\* C22: the passages build_context includes are a prefix of the input list in
\* input order; inclusion stops at the first passage whose tokens would exceed
\* the budget, and no later passage is included even if it would fit;
\* num_passages is the length of that prefix.
C22_IncludedPassagesArePrefix ==
    (bret.returned /\ bcall.passages # <<>>) =>
        /\ bret.num_passages = Len(bret.context_parts)
        /\ bret.num_passages <= Len(bcall.passages)
        /\ \A n \in 1..bret.num_passages : bret.context_parts[n] = FormattedInput(n)
        /\ bret.num_passages < Len(bcall.passages) =>
              TokensOfParts(bret.context_parts, bret.num_passages)
                + CountTokens(FormattedInput(bret.num_passages + 1) \o Separator)
                  > builder.max_context_tokens

\* the budget stopped the walk at a passage, and a passage after it would
\* have fitted in what was left
C22_Witness ==
    /\ bret.returned
    /\ ~bcall.include_metadata
    /\ bret.num_passages >= 1
    /\ \E j \in (bret.num_passages + 2)..Len(bcall.passages) :
          bret.total_tokens + CountTokens(bcall.passages[j].content \o Separator)
             <= builder.max_context_tokens

\* C28: each source listed in the citations block and counted in num_sources
\* is the source of at least one passage included in the context; a passage
\* cut off by the token budget contributes no citation, so num_sources is
\* the number of distinct sources among the included passages.
C28_CitedSourcesAreIncluded ==
    (bret.returned /\ bcall.passages # <<>>) =>
        LET included == {SourceOf(bcall.passages[k]) : k \in 1..bret.num_passages}
        IN  /\ \A n \in 1..Len(bret.citations) : bret.citations[n].source \in included
            /\ bret.num_sources = Cardinality(included)

\* ------------------------------------------------------------------------
\* Properties of the two store instances of the server
\* ------------------------------------------------------------------------
\* C26: a store operation of the websocket handler's instance (a chat turn)
\* leaves every conversation that was in the durable file in it, under the
\* title it had: a session created through create_session with title T keeps
\* title T, and no other conversation drops out of the file.
C26_ChatTurnKeepsSessions ==
    [][last'.inst = "ws" =>
          \A c \in DOMAIN file.data :
             /\ c \in DOMAIN file'.data
             /\ file'.data[c].title = file.data[c].title]_vars

\* C27: once delete_session has removed a non-default conversation, no later
\* operation that names another conversation ID puts it back into the
\* durable file or into the session list.
C27_DeletedStaysOutOfFile ==
    [][\A c \in deleted :
          (/\ c \notin DOMAIN file.data
           /\ c \notin DOMAIN sessions["app"]
           /\ last'.cid # c)
             => /\ c \notin DOMAIN file'.data
                /\ c \notin DOMAIN sessions'["app"]]_vars

\* ------------------------------------------------------------------------
\* Further properties of the chat websocket
\* ------------------------------------------------------------------------
RECURSIVE Concat(_)
\* the texts of a list joined, as the client joins the chunks it receives
Concat(texts) ==
    IF texts = <<>> THEN <<>> ELSE texts[1] \o Concat(Tail(texts))

\* a chat turn has been streamed to its end
TurnStreamed == sock.pc = "idle" /\ sock.reply # <<>>

\* a chat turn has failed in generate(): __ERROR__ was sent for an accepted
\* payload
TurnFailed == sock.pc = "idle" /\ sock.sent = <<"__ERROR__", "__DONE__">>

\* the chunks first, then the __AUDIO__ message if there is one, then
\* __DONE__, sent once and last
ChunksAudioDone ==
    LET k == Len(sock.chunks)
    IN  /\ Len(sock.sent) \in {k + 1, k + 2}
        /\ \A n \in 1..k : sock.sent[n] = "token" /\ sock.chunks[n] # <<>>
        /\ Len(sock.sent) = k + 2 => sock.sent[k + 1] = "__AUDIO__"
        /\ sock.sent[Len(sock.sent)] = "__DONE__"
        /\ Cardinality({n \in 1..Len(sock.sent) : sock.sent[n] = "__DONE__"}) = 1

C29_FailedTurnLeavesStoreAlone ==
    TurnFailed =>
        /\ sessions["ws"] = sock.before
        /\ file.data = sock.before

\* C29 (amended): after such a failure the store holds what the handler wrote
\* before generate(): the conversation exists, created as "Untitled" if it
\* was unknown, and its stored messages are those before the turn followed
\* by the user's message; no assistant message is added, every other
\* conversation is unchanged, and the file holds the same.
C29_FailedTurnKeepsUserMessage ==
    TurnFailed =>
        LET cid == sock.frame.conversation_id
            old == IF cid \in DOMAIN sock.before
                   THEN sock.before[cid].messages ELSE <<>>
        IN  /\ DOMAIN sessions["ws"] = DOMAIN sock.before \cup {cid}
            /\ \A c \in DOMAIN sock.before \ {cid} : sessions["ws"][c] = sock.before[c]
            /\ sessions["ws"][cid].messages
                  = Append(old, [role |-> "user", content |-> sock.frame.message,
                                 message_id |-> Minted, timestamp |-> Minted])
            /\ sessions["ws"][cid].title
                  = (IF cid \in DOMAIN sock.before
                     THEN sock.before[cid].title ELSE "Untitled")
            /\ file = [state |-> "ok", data |-> sessions["ws"]]

\* a turn failed in a conversation that held an earlier exchange
C29_Witness ==
    /\ TurnFailed
    /\ sock.frame.conversation_id \in DOMAIN sock.before
    /\ Len(sock.before[sock.frame.conversation_id].messages) = 2

\* ------------------------------------------------------------------------
\* Properties of the store when the file cannot be read
\* ------------------------------------------------------------------------
\* C30: if the file could not be read or parsed when the instance loaded it,
\* so that the instance does not know a conversation the file holds, no later
\* operation of the instance on another ID overwrites the file with a store
\* that omits that conversation.
C30_FailedLoadLosesNothing ==
    [][\A c \in DOMAIN file.data :
          (c \notin DOMAIN sessions["app"] /\ last'.cid # c)
             => /\ c \in DOMAIN file'.data
                /\ file'.data[c] = file.data[c]]_vars

\* ------------------------------------------------------------------------
\* Properties of the views of the store
\* ------------------------------------------------------------------------
\* while the view's list is the store's list, the two show the same messages
ViewFollowsStore ==
    held.alias =>
        /\ held.cid \in DOMAIN sessions["app"]
        /\ held.messages = sessions["app"][held.cid].messages

\* C23: the view returned by get_state is a copy with respect to the store: a
\* caller's append to the returned messages list changes neither the store's
\* in-memory conversation nor the durable file, and a later clear_messages
\* leaves the views fetched before it as they were.
C23_ViewIsACopy ==
    [][/\ held'.appends = held.appends + 1
            => (sessions' = sessions /\ file' = file)
       /\ (last'.op = "clear_messages" /\ held'.appends = held.appends)
            => held'.messages = held.messages]_vars

============================================================================
